---- MODULE Spec2Model ----
(***************************************************************************)
(* p-variation of a finite real-valued sequence (p_var_real.cpp).          *)
(*                                                                         *)
(* The sequence x and the list of admissible points `links` are functions  *)
(* over the source's 0-based indices 0..n-1; the sentinel "no further      *)
(* node" is n.  Reals are modelled by small naturals and p by a positive   *)
(* integer, so that std::pow(std::abs(d), p) is exact.                     *)
(***************************************************************************)
EXTENDS Integers, Sequences, FiniteSets, TLC

\* Bounds of the model.
MaxLen  == 5     \* longest sequence of the first family of inputs
MaxVal  == 2     \* its values are drawn from 0..MaxVal
MaxP    == 2     \* its exponents from 1..MaxP; the second family's are MaxP, MaxP + 1
MaxZLen == 8     \* length of the sequences of the second family of inputs
MaxZVal == 4     \* their values are drawn from 0..MaxZVal

\* pvar calls MergeIntervalsRecursively(x, links, p, 4).
LSI == 4

VARIABLES
    x,           \* the input sequence, a function over 0..n-1
    p,           \* the exponent
    links,       \* DoublyLinkedList: index -> [prev, next, pvdiff]
    pc,          \* position of the computation inside pvar
    int_begin,   \* CheckShortIntervals: begin of the window
    int_end,     \* CheckShortIntervals: end of the window
    csum,        \* CheckShortIntervals: sum of the window's edge weights
    IterList,    \* MergeIntervalsRecursively: boundaries of the intervals
    a_IL,        \* positions (1-based) of the three list iterators;
    v_IL,        \*   Len(IterList) + 1 is IterList.end()
    b_IL,
    av_mins,     \* the four vectors of pvtemppoint that Merge2GoodInt captures
    av_maxs,
    vb_mins,
    vb_maxs,
    maxbalance,  \* Merge2GoodInt: best balance found by the last call
    tait,        \* Merge2GoodInt: (*tait).it of the last improving pair
    tbit,        \* Merge2GoodInt: (*tbit).it of the last improving pair
    pvalue,      \* the value pvar returns
    touched      \* every index k for which x[k] or links[k] was read or written

vars == <<x, p, links, pc, int_begin, int_end, csum, IterList, a_IL, v_IL, b_IL,
          av_mins, av_maxs, vb_mins, vb_maxs, maxbalance, tait, tbit, pvalue, touched>>

\* The variables of one call of Merge2GoodInt.
mvars == <<av_mins, av_maxs, vb_mins, vb_maxs, maxbalance, tait, tbit>>

-----------------------------------------------------------------------------
\* Helpers.

Size(xs) == Cardinality(DOMAIN xs)

Abs(d) == IF d < 0 THEN -d ELSE d

RECURSIVE Pow(_, _)
Pow(b, e) == IF e = 0 THEN 1 ELSE b * Pow(b, e - 1)

\* the difference used in p-variation, i.e. the abs power of diff.
pvar_diff(diff, pp) == Pow(Abs(diff), pp)

\* A read of the vector outside 0..n-1 is recorded in `touched` and stops the
\* run (pc = "fault"); the value it yields is therefore never observed.
NoLink == [prev |-> 0, next |-> 0, pvdiff |-> 0]
LinkAt(lk, k) == IF k \in DOMAIN lk THEN lk[k] ELSE NoLink
XAt(xs, k) == IF k \in DOMAIN xs THEN xs[k] ELSE 0

\* DoublyLinkedList links(x.size()): value-initialised records.
NewLinks(xs) == [i \in DOMAIN xs |-> NoLink]

-----------------------------------------------------------------------------
\* DetectLocalExtrema

\* Faulty variant of IsNewExtremum: a flat step counts as a rising one.
IsNewExtremum_FlatRises(xs, i, direction) ==
    LET j == i + 1 IN
    IF j # Size(xs)
    THEN IF xs[j] >= xs[i] THEN direction = -1
         ELSE direction = 1
    ELSE TRUE

\* One iteration of the scan: is point i a new extremum?
IsNewExtremum(xs, i, direction) ==
    LET j == i + 1 IN
    IF j # Size(xs)
    THEN IF xs[j] > xs[i] THEN direction = -1
         ELSE IF xs[j] < xs[i] THEN direction = 1
         ELSE FALSE
    ELSE TRUE

NextDirection(xs, i, direction) ==
    LET j == i + 1 IN
    IF j # Size(xs)
    THEN IF xs[j] > xs[i] THEN 1
         ELSE IF xs[j] < xs[i] THEN -1
         ELSE direction
    ELSE direction

RECURSIVE DetectLoop(_, _, _, _, _, _)
DetectLoop(xs, pp, lk, i, last_extremum, direction) ==
    IF ~(i < Size(xs)) THEN lk
    ELSE LET new_extremum == IsNewExtremum(xs, i, direction)
             lk2 == IF new_extremum
                    THEN [lk EXCEPT ![last_extremum].next = i,
                                    ![i].prev = last_extremum,
                                    ![i].pvdiff = pvar_diff(xs[i] - xs[last_extremum], pp)]
                    ELSE lk
         IN DetectLoop(xs, pp, lk2, i + 1,
                       IF new_extremum THEN i ELSE last_extremum,
                       NextDirection(xs, i, direction))

DetectLocalExtrema(xs, lk, pp) ==
    LET n == Size(xs)
        lk0 == [lk EXCEPT ![0].prev = 0, ![0].pvdiff = 0, ![n - 1].next = n]
    IN DetectLoop(xs, pp, lk0, 0, 0, 0)

-----------------------------------------------------------------------------
\* CheckShortIntervals

\* The first loop: the window of the first three edges.
RECURSIVE ShortBeginLoop(_, _, _, _, _, _)
ShortBeginLoop(lk, n, dcount, ie, cs, idx) ==
    IF ~(dcount < 3) THEN [ret |-> FALSE, int_end |-> ie, csum |-> cs, idx |-> idx]
    ELSE LET ie2 == LinkAt(lk, ie).next IN
         IF ie2 = n
         THEN [ret |-> TRUE, int_end |-> ie2, csum |-> cs, idx |-> idx \cup {ie}]
         ELSE ShortBeginLoop(lk, n, dcount + 1, ie2, cs + LinkAt(lk, ie2).pvdiff,
                             idx \cup {ie, ie2})

\* The backtracking loop that follows an excision.
RECURSIVE BacktrackLoop(_, _, _, _, _, _, _)
BacktrackLoop(lk, n, dcount, ib, ie, cs, idx) ==
    IF ~(dcount < 3)
    THEN [ret |-> FALSE, int_begin |-> ib, int_end |-> ie, csum |-> cs, idx |-> idx]
    ELSE IF ib > 0
         THEN BacktrackLoop(lk, n, dcount + 1, LinkAt(lk, ib).prev, ie,
                            cs + LinkAt(lk, ib).pvdiff, idx \cup {ib})
         ELSE LET ie2 == LinkAt(lk, ie).next IN
              IF ie2 = n
              THEN [ret |-> TRUE, int_begin |-> ib, int_end |-> ie2, csum |-> cs,
                    idx |-> idx \cup {ie}]
              ELSE BacktrackLoop(lk, n, dcount + 1, ib, ie2,
                                 cs + LinkAt(lk, ie2).pvdiff, idx \cup {ie, ie2})

\* Faulty variant of MidPointsSignificant: a tie counts as redundant.
MidPointsSignificant_Strict(cs, fjoinval) == cs > fjoinval

\* The test of the main loop: are the mid points significant?
MidPointsSignificant(cs, fjoinval) == cs >= fjoinval

\* Faulty variant of EraseMidPoints: the back link of int_end is left stale.
EraseMidPoints_StalePrev(lk, ib, ie, fjoinval) ==
    [lk EXCEPT ![ib].next = ie, ![ie].pvdiff = fjoinval]

\* The links after the mid points of the window were erased.
EraseMidPoints(lk, ib, ie, fjoinval) ==
    [lk EXCEPT ![ib].next = ie, ![ie].prev = ib, ![ie].pvdiff = fjoinval]

\* Faulty variant of ShortStep: after an excision the window is rebuilt
\* forward from int_end, without stepping back.
ShortStep_NoBacktrack(xs, pp, lk, ib, ie, cs) ==
    LET n == Size(xs)
        fjoinval == pvar_diff(XAt(xs, ib) - XAt(xs, ie), pp)
    IN IF MidPointsSignificant(cs, fjoinval)
       THEN LET ie2 == LinkAt(lk, ie).next
                ib2 == LinkAt(lk, ib).next
            IN IF ie2 = n
               THEN [ret |-> TRUE, erased |-> FALSE, links |-> lk, int_begin |-> ib,
                     int_end |-> ie2, csum |-> cs, idx |-> {ib, ie}]
               ELSE [ret |-> FALSE, erased |-> FALSE, links |-> lk, int_begin |-> ib2,
                     int_end |-> ie2,
                     csum |-> cs - LinkAt(lk, ib2).pvdiff + LinkAt(lk, ie2).pvdiff,
                     idx |-> {ib, ie, ib2, ie2}]
       ELSE LET lk2 == EraseMidPoints(lk, ib, ie, fjoinval)
                r == ShortBeginLoop(lk2, n, 0, ie, 0, {ib, ie})
            IN [ret |-> r.ret, erased |-> TRUE, links |-> lk2, int_begin |-> ie,
                int_end |-> r.int_end, csum |-> r.csum, idx |-> r.idx]

\* One iteration of the main loop `while (true)`.  ret: the function returns;
\* erased: the iteration took the second branch.
ShortStep(xs, pp, lk, ib, ie, cs) ==
    LET n == Size(xs)
        fjoinval == pvar_diff(XAt(xs, ib) - XAt(xs, ie), pp)
    IN IF MidPointsSignificant(cs, fjoinval)
       THEN \* mid points are significant, continue to next interval
            LET ie2 == LinkAt(lk, ie).next
                ib2 == LinkAt(lk, ib).next
            IN IF ie2 = n
               THEN [ret |-> TRUE, erased |-> FALSE, links |-> lk, int_begin |-> ib,
                     int_end |-> ie2, csum |-> cs, idx |-> {ib, ie}]
               ELSE [ret |-> FALSE, erased |-> FALSE, links |-> lk, int_begin |-> ib2,
                     int_end |-> ie2,
                     csum |-> cs - LinkAt(lk, ib2).pvdiff + LinkAt(lk, ie2).pvdiff,
                     idx |-> {ib, ie, ib2, ie2}]
       ELSE \* mid points are redundant, erase them
            LET lk2 == EraseMidPoints(lk, ib, ie, fjoinval)
                r == BacktrackLoop(lk2, n, 0, ie, ie, 0, {ib, ie})
            IN [ret |-> r.ret, erased |-> TRUE, links |-> lk2, int_begin |-> r.int_begin,
                int_end |-> r.int_end, csum |-> r.csum, idx |-> r.idx]

\* The whole function, as pvar calls it.  `fuel` bounds the iterations of the
\* main loop.
RECURSIVE ShortLoop(_, _, _, _, _, _, _)
ShortLoop(xs, pp, lk, ib, ie, cs, fuel) ==
    LET r == ShortStep(xs, pp, lk, ib, ie, cs) IN
    IF r.ret \/ fuel = 0 THEN r.links
    ELSE ShortLoop(xs, pp, r.links, r.int_begin, r.int_end, r.csum, fuel - 1)

CheckShortIntervals(xs, lk, pp) ==
    LET b == ShortBeginLoop(lk, Size(xs), 0, 0, 0, {}) IN
    IF b.ret THEN lk ELSE ShortLoop(xs, pp, lk, 0, b.int_end, b.csum, 4 * Size(xs))

-----------------------------------------------------------------------------
\* MergeIntervalsRecursively: the lambda Merge2GoodInt

\* A pvtemppoint.
Tp(i, e) == [it |-> i, ev |-> e]

\* Potential points in [a,v), found walking back from v.  `fuel` bounds the
\* number of iterations: a walk that has not reached a after n steps never
\* does (ok = FALSE).
RECURSIVE WalkAV(_, _, _, _, _, _, _, _, _, _, _)
WalkAV(xs, lk, a, prt_it, ev, amin, amax, mins, maxs, idx, fuel) ==
    IF prt_it = a
    THEN [ok |-> TRUE, mins |-> mins, maxs |-> maxs, idx |-> idx]
    ELSE IF fuel = 0 \/ prt_it \notin DOMAIN lk
    THEN [ok |-> FALSE, mins |-> mins, maxs |-> maxs, idx |-> idx \cup {prt_it}]
    ELSE LET ev2 == ev + lk[prt_it].pvdiff
             it2 == lk[prt_it].prev
             xv  == XAt(xs, it2)
         IN WalkAV(xs, lk, a, it2, ev2,
                   IF xv < amin THEN xv ELSE amin,
                   IF xv > amax THEN xv ELSE amax,
                   IF xv < amin THEN Append(mins, Tp(it2, ev2)) ELSE mins,
                   IF xv > amax THEN Append(maxs, Tp(it2, ev2)) ELSE maxs,
                   idx \cup {prt_it, it2}, fuel - 1)

\* Potential points in (v,b], found walking forward from v.
RECURSIVE WalkVB(_, _, _, _, _, _, _, _, _, _, _)
WalkVB(xs, lk, b, prt_it, ev, bmin, bmax, mins, maxs, idx, fuel) ==
    IF prt_it = b
    THEN [ok |-> TRUE, mins |-> mins, maxs |-> maxs, idx |-> idx]
    ELSE IF fuel = 0 \/ prt_it \notin DOMAIN lk
    THEN [ok |-> FALSE, mins |-> mins, maxs |-> maxs, idx |-> idx \cup {prt_it}]
    ELSE LET it2 == lk[prt_it].next
             ev2 == ev + LinkAt(lk, it2).pvdiff
             xv  == XAt(xs, it2)
         IN WalkVB(xs, lk, b, it2, ev2,
                   IF xv < bmin THEN xv ELSE bmin,
                   IF xv > bmax THEN xv ELSE bmax,
                   IF xv < bmin THEN Append(mins, Tp(it2, ev2)) ELSE mins,
                   IF xv > bmax THEN Append(maxs, Tp(it2, ev2)) ELSE maxs,
                   idx \cup {prt_it, it2}, fuel - 1)

PotentialAV(xs, lk, a, v) ==
    WalkAV(xs, lk, a, v, 0, XAt(xs, v), XAt(xs, v), << >>, << >>, {v}, Size(xs))

PotentialVB(xs, lk, v, b) ==
    WalkVB(xs, lk, b, v, 0, XAt(xs, v), XAt(xs, v), << >>, << >>, {v}, Size(xs))

\* Faulty variant of Balance: the weight lost on the left side is forgotten.
Balance_NoLeftLoss(xs, pp, l, r) == pvar_diff(xs[l.it] - xs[r.it], pp) - r.ev

\* The balance of joining left candidate l with right candidate r.
Fjoin(xs, pp, l, r) == pvar_diff(xs[l.it] - xs[r.it], pp)
Balance(xs, pp, l, r) == Fjoin(xs, pp, l, r) - r.ev - l.ev

\* Faulty variant of TakeJoint: the cursor is moved past the pair just taken.
TakeJoint_CursorPast(st, balance, fjoin, l, r, bit) ==
    [maxbalance |-> balance, takefjoin |-> fjoin, tait |-> l.it, tbit |-> r.it,
     sbit |-> bit + 1]

\* The body of `if (balance > maxbalance)`: st is the record of maxbalance,
\* takefjoin, tait, tbit and the cursor sbit (a position of the right list).
TakeJoint(st, balance, fjoin, l, r, bit) ==
    [maxbalance |-> balance, takefjoin |-> fjoin, tait |-> l.it, tbit |-> r.it,
     sbit |-> bit]

\* for(bit = sbit; bit != B.end(); bit++)
RECURSIVE InnerScan(_, _, _, _, _, _)
InnerScan(xs, pp, l, B, bit, st) ==
    IF bit > Len(B) THEN st
    ELSE LET fjoin == Fjoin(xs, pp, l, B[bit])
             balance == Balance(xs, pp, l, B[bit])
         IN InnerScan(xs, pp, l, B, bit + 1,
                      IF balance > st.maxbalance
                      THEN TakeJoint(st, balance, fjoin, l, B[bit], bit)
                      ELSE st)

\* for(ait = A.begin(); ait != A.end(); ait++)
RECURSIVE OuterScan(_, _, _, _, _, _)
OuterScan(xs, pp, A, B, ait, st) ==
    IF ait > Len(A) THEN st
    ELSE OuterScan(xs, pp, A, B, ait + 1, InnerScan(xs, pp, A[ait], B, st.sbit, st))

\* One cross product: sbit = B.begin(), then the two nested loops.
CheckJoints(xs, pp, A, B, st) == OuterScan(xs, pp, A, B, 1, [st EXCEPT !.sbit = 1])

\* Faulty variant of BestJoint: the second cross product is left out.
BestJoint_FirstOnly(xs, pp, av, vb, ta, tb) ==
    CheckJoints(xs, pp, av.mins, vb.maxs,
                [maxbalance |-> 0, takefjoin |-> 0, tait |-> ta, tbit |-> tb, sbit |-> 1])

\* Both cross products: av_mins x vb_maxs, then av_maxs x vb_mins.
BestJoint(xs, pp, av, vb, ta, tb) ==
    LET st0 == [maxbalance |-> 0, takefjoin |-> 0, tait |-> ta, tbit |-> tb, sbit |-> 1]
        st1 == CheckJoints(xs, pp, av.mins, vb.maxs, st0)
    IN CheckJoints(xs, pp, av.maxs, vb.mins, st1)

\* Faulty variant of JoinLinks: the back link of tbit is left stale.
JoinLinks_StalePrev(lk, st) ==
    IF st.maxbalance > 0
    THEN [lk EXCEPT ![st.tait].next = st.tbit,
                    ![st.tbit].pvdiff = st.takefjoin]
    ELSE lk

\* if we found any point, join it by erasing all middle points
JoinLinks(lk, st) ==
    IF st.maxbalance > 0
    THEN [lk EXCEPT ![st.tait].next = st.tbit,
                    ![st.tbit].prev = st.tait,
                    ![st.tbit].pvdiff = st.takefjoin]
    ELSE lk

\* merge two intervals ([a, v] and [v, b]) which are known to be good.
\* m is the record of the captured variables as the previous call left them;
\* called: FALSE when the call returns at once (a == v or v == b).
Merge2GoodInt(xs, lk, pp, a, v, b, m) ==
    IF a = v \/ v = b
    THEN [called |-> FALSE, ok |-> TRUE, links |-> lk, m |-> m, idx |-> {}]
    ELSE LET av == PotentialAV(xs, lk, a, v)
             vb == PotentialVB(xs, lk, v, b)
         IN IF ~(av.ok /\ vb.ok /\ (av.idx \cup vb.idx) \subseteq DOMAIN lk)
            THEN [called |-> TRUE, ok |-> FALSE, links |-> lk, m |-> m,
                  idx |-> av.idx \cup vb.idx]
            ELSE LET st == BestJoint(xs, pp, av, vb, m.tait, m.tbit) IN
                 [called |-> TRUE, ok |-> TRUE, links |-> JoinLinks(lk, st),
                  m |-> [av_mins |-> av.mins, av_maxs |-> av.maxs,
                         vb_mins |-> vb.mins, vb_maxs |-> vb.maxs,
                         maxbalance |-> st.maxbalance, tait |-> st.tait, tbit |-> st.tbit],
                  idx |-> av.idx \cup vb.idx \cup
                          (IF st.maxbalance > 0 THEN {st.tait, st.tbit} ELSE {})]

\* The captured variables before the first call.
NoMerge == [av_mins |-> << >>, av_maxs |-> << >>, vb_mins |-> << >>, vb_maxs |-> << >>,
            maxbalance |-> 0, tait |-> 0, tbit |-> 0]

\* 1. Finding all the intervals that will be merged.
RECURSIVE FindIntervals(_, _, _, _, _, _, _)
FindIntervals(lk, n, it, count, il, idx, fuel) ==
    IF ~(it < n) THEN [ok |-> TRUE, list |-> il, idx |-> idx]
    ELSE IF fuel = 0 THEN [ok |-> FALSE, list |-> il, idx |-> idx]
    ELSE FindIntervals(lk, n, lk[it].next, count + 1,
                       IF count % LSI = 0 THEN Append(il, it) ELSE il,
                       idx \cup {it}, fuel - 1)

\* Faulty variant of InitialIterList: the sentinel n is pushed as last boundary.
InitialIterList_Sentinel(lk, n) == Append(FindIntervals(lk, n, 0, 0, << >>, {}, n).list, n)

InitialIterList(lk, n) == Append(FindIntervals(lk, n, 0, 0, << >>, {}, n).list, n - 1)

\* IterList.erase(v_IL)
Erase(il, pos) == [k \in 1..(Len(il) - 1) |-> IF k < pos THEN il[k] ELSE il[k + 1]]

\* The test of the inner loop: (b_IL != IterList.end()) & (v_IL != IterList.end())
InnerTest(il, v, b) == b # Len(il) + 1 /\ v # Len(il) + 1

\* 2. Merging pairs of intervals until everything is merged: the two nested
\* loops, run to completion.  a is the position of a_IL; v_IL and b_IL follow it.
RECURSIVE MergeLoop(_, _, _, _, _)
MergeLoop(xs, pp, lk, il, a) ==
    IF InnerTest(il, a + 1, a + 2)
    THEN LET r == Merge2GoodInt(xs, lk, pp, il[a], il[a + 1], il[a + 2], NoMerge) IN
         IF ~r.ok THEN lk
         ELSE MergeLoop(xs, pp, r.links, Erase(il, a + 1), a + 1)
    ELSE IF Len(il) > 2 THEN MergeLoop(xs, pp, lk, il, 1)
    ELSE lk

MergeIntervalsRecursively(xs, lk, pp) ==
    IF Len(InitialIterList(lk, Size(xs))) > 2
    THEN MergeLoop(xs, pp, lk, InitialIterList(lk, Size(xs)), 1)
    ELSE lk

-----------------------------------------------------------------------------
\* The output loop of pvar.
RECURSIVE Accumulate(_, _, _, _, _, _)
Accumulate(lk, n, i, pv, idx, fuel) ==
    IF ~(i < n) THEN [ok |-> TRUE, pvalue |-> pv, idx |-> idx]
    ELSE IF fuel = 0 THEN [ok |-> FALSE, pvalue |-> pv, idx |-> idx]
    ELSE Accumulate(lk, n, lk[i].next, pv + lk[i].pvdiff, idx \cup {i}, fuel - 1)

\* p-variation calculation: pvar as a function of (x, p).
pvar(xs, pp) ==
    IF Size(xs) <= 2
    THEN IF Size(xs) <= 1 THEN 0 ELSE Pow(Abs(xs[0] - xs[1]), pp)
    ELSE LET l1 == DetectLocalExtrema(xs, NewLinks(xs), pp)
             l2 == CheckShortIntervals(xs, l1, pp)
             l3 == MergeIntervalsRecursively(xs, l2, pp)
         IN Accumulate(l3, Size(xs), 0, 0, {}, Size(xs)).pvalue

-----------------------------------------------------------------------------
\* The state machine.

\* The inputs.  First family: every sequence of at most MaxLen values.  Second
\* family: the strictly alternating sequences of MaxZLen values that start at 0
\* (every interior point is a local extremum, so the extrema scan drops no
\* point and the later stages work on chains of MaxZLen nodes).
Sequences == UNION {[0..(len - 1) -> 0..MaxVal] : len \in 0..MaxLen}

RECURSIVE ZigZagSeqs(_)
ZigZagSeqs(len) ==
    IF len = 1 THEN {<<0>>}
    ELSE {Append(fv[1], fv[2]) :
            fv \in {gw \in ZigZagSeqs(len - 1) \X (0..MaxZVal) :
                      IF len % 2 = 0 THEN gw[2] > gw[1][len - 1] ELSE gw[2] < gw[1][len - 1]}}

\* <<x[0], ..., x[len-1]>> as a function over 0..len-1.
ZigZags(len) == {[i \in 0..(len - 1) |-> sq[i + 1]] : sq \in ZigZagSeqs(len)}

InitRest ==
    /\ links = << >>
    /\ pc = "start"
    /\ int_begin = 0 /\ int_end = 0 /\ csum = 0
    /\ IterList = << >>
    /\ a_IL = 0 /\ v_IL = 0 /\ b_IL = 0
    /\ av_mins = << >> /\ av_maxs = << >> /\ vb_mins = << >> /\ vb_maxs = << >>
    /\ maxbalance = 0 /\ tait = 0 /\ tbit = 0
    /\ pvalue = 0
    /\ touched = {}

Init ==
    /\ \/ x \in Sequences /\ p \in 1..MaxP
       \/ x \in ZigZags(MaxZLen) /\ p \in {MaxP, MaxP + 1}
    /\ InitRest

N == Size(x)

\* Every index touched so far is inside the vector.
InBounds(idx) == idx \subseteq 0..(N - 1)

\* pvar, short special cases (x.size() <= 2).
PvarShortCases ==
    /\ pc = "start"
    /\ N <= 2
    /\ pvalue' = IF N <= 1 THEN 0 ELSE Pow(Abs(x[0] - x[1]), p)
    /\ touched' = IF N <= 1 THEN {} ELSE {0, 1}
    /\ pc' = "done"
    /\ UNCHANGED <<x, p, links, int_begin, int_end, csum, IterList, a_IL, v_IL, b_IL,
                   mvars>>

\* pvar: construct the list and run DetectLocalExtrema.
Detect ==
    /\ pc = "start"
    /\ N > 2
    /\ links' = DetectLocalExtrema(x, NewLinks(x), p)
    /\ touched' = 0..(N - 1)
    /\ pc' = "shortBegin"
    /\ UNCHANGED <<x, p, int_begin, int_end, csum, IterList, a_IL, v_IL, b_IL,
                   mvars, pvalue>>

\* CheckShortIntervals up to the main loop.
ShortBegin ==
    /\ pc = "shortBegin"
    /\ LET r == ShortBeginLoop(links, N, 0, 0, 0, {}) IN
       /\ touched' = touched \cup r.idx
       /\ IF ~InBounds(r.idx)
          THEN pc' = "fault" /\ UNCHANGED <<int_begin, int_end, csum>>
          ELSE IF r.ret
          THEN pc' = "mergeBegin" /\ UNCHANGED <<int_begin, int_end, csum>>
          ELSE /\ pc' = "short"
               /\ int_begin' = 0
               /\ int_end' = r.int_end
               /\ csum' = r.csum
    /\ UNCHANGED <<x, p, links, IterList, a_IL, v_IL, b_IL, mvars, pvalue>>

\* The effect of one iteration of the main loop of CheckShortIntervals.
ShortApply(r) ==
    /\ touched' = touched \cup r.idx
    /\ IF ~InBounds(r.idx)
       THEN pc' = "fault" /\ UNCHANGED <<links, int_begin, int_end, csum>>
       ELSE /\ links' = r.links
            /\ IF r.ret
               THEN pc' = "mergeBegin" /\ int_begin' = 0 /\ int_end' = 0 /\ csum' = 0
               ELSE /\ pc' = "short"
                    /\ int_begin' = r.int_begin
                    /\ int_end' = r.int_end
                    /\ csum' = r.csum
    /\ UNCHANGED <<x, p, IterList, a_IL, v_IL, b_IL, mvars, pvalue>>

\* First branch: mid points are significant, continue to the next interval.
ShortAdvance ==
    /\ pc = "short"
    /\ LET r == ShortStep(x, p, links, int_begin, int_end, csum) IN
       ~r.erased /\ ShortApply(r)

\* Second branch: mid points are redundant, erase them and backtrack.
ShortErase ==
    /\ pc = "short"
    /\ LET r == ShortStep(x, p, links, int_begin, int_end, csum) IN
       r.erased /\ ShortApply(r)

\* MergeIntervalsRecursively up to the first test of the inner loop.
MergeBegin ==
    /\ pc = "mergeBegin"
    /\ LET r == FindIntervals(links, N, 0, 0, << >>, {}, N)
           il == InitialIterList(links, N)
       IN
       /\ touched' = touched \cup r.idx
       /\ IF ~r.ok
          THEN pc' = "hang" /\ UNCHANGED <<IterList, a_IL, v_IL, b_IL>>
          ELSE /\ IterList' = il
               /\ IF Len(il) > 2
                  THEN pc' = "merge" /\ a_IL' = 1 /\ v_IL' = 2 /\ b_IL' = 3
                  ELSE pc' = "accum" /\ UNCHANGED <<a_IL, v_IL, b_IL>>
    /\ UNCHANGED <<x, p, links, int_begin, int_end, csum, mvars, pvalue>>

\* The body of the inner loop: merge [a,v] and [v,b], drop v, step the iterators.
\* When v_IL has become IterList.end(), ++b_IL increments a past-the-end
\* iterator, which is undefined.  The builds differ: the list is circular
\* through its sentinel node, so the iterator wraps to IterList.begin(); with
\* checked iterators (_GLIBCXX_DEBUG) the program is aborted.
MergeStep ==
    /\ pc = "merge"
    /\ InnerTest(IterList, v_IL, b_IL)
    /\ LET r == Merge2GoodInt(x, links, p, IterList[a_IL], IterList[v_IL], IterList[b_IL],
                              [av_mins |-> av_mins, av_maxs |-> av_maxs,
                               vb_mins |-> vb_mins, vb_maxs |-> vb_maxs,
                               maxbalance |-> maxbalance, tait |-> tait, tbit |-> tbit])
           il == Erase(IterList, v_IL)
       IN
       /\ touched' = touched \cup r.idx
       /\ IF ~r.ok
          THEN /\ pc' = IF InBounds(r.idx) THEN "hang" ELSE "fault"
               /\ UNCHANGED <<links, IterList, a_IL, v_IL, b_IL, mvars>>
          ELSE /\ links' = r.links
               /\ av_mins' = r.m.av_mins /\ av_maxs' = r.m.av_maxs
               /\ vb_mins' = r.m.vb_mins /\ vb_maxs' = r.m.vb_maxs
               /\ maxbalance' = r.m.maxbalance
               /\ tait' = r.m.tait
               /\ tbit' = r.m.tbit
               /\ IterList' = il
               /\ a_IL' = v_IL
               /\ v_IL' = v_IL + 1
               /\ IF v_IL + 1 = Len(il) + 1
                  THEN \/ pc' = "merge" /\ b_IL' = 1
                       \/ pc' = "abort" /\ b_IL' = v_IL + 1
                  ELSE pc' = "merge" /\ b_IL' = v_IL + 2
    /\ UNCHANGED <<x, p, int_begin, int_end, csum, pvalue>>

\* The inner loop ends: test of the outer loop, and its first three statements.
MergeRound ==
    /\ pc = "merge"
    /\ ~InnerTest(IterList, v_IL, b_IL)
    /\ IF Len(IterList) > 2
       THEN pc' = "merge" /\ a_IL' = 1 /\ v_IL' = 2 /\ b_IL' = 3
       ELSE pc' = "accum" /\ a_IL' = 0 /\ v_IL' = 0 /\ b_IL' = 0
    /\ UNCHANGED <<x, p, links, int_begin, int_end, csum, IterList, mvars, pvalue, touched>>

\* pvar: the output loop and the return.
Output ==
    /\ pc = "accum"
    /\ LET r == Accumulate(links, N, 0, 0, {}, N) IN
       /\ touched' = touched \cup r.idx
       /\ pvalue' = r.pvalue
       /\ pc' = IF r.ok THEN "done" ELSE "hang"
    /\ UNCHANGED <<x, p, links, int_begin, int_end, csum, IterList, a_IL, v_IL, b_IL,
                   mvars>>

Next ==
    \/ PvarShortCases
    \/ Detect
    \/ ShortBegin
    \/ ShortAdvance
    \/ ShortErase
    \/ MergeBegin
    \/ MergeStep
    \/ MergeRound
    \/ Output

Spec == Init /\ [][Next]_vars

-----------------------------------------------------------------------------
\* Definitions used to state the properties.

Range(sq) == {sq[k] : k \in 1..Len(sq)}

SetMax(S) == CHOOSE m \in S : \A k \in S : k <= m

Reverse(xs) == [i \in DOMAIN xs |-> xs[Size(xs) - 1 - i]]

\* The p-variation of x[a..b] by exhaustive search, tabulated from the right:
\* the best from i is the largest sum of |x[i_j] - x[i_(j-1)]|^p over all
\* increasing index subsequences of i..b that start at i (stop at i, or move on
\* to any j > i and continue with the best from j).  The table is the sequence
\* <<best from b, best from b-1, ..., best from i>>.
RECURSIVE BestMove(_, _, _, _, _, _, _)
BestMove(xs, pp, i, j, b, tbl, acc) ==
    IF j > b THEN acc
    ELSE LET via == pvar_diff(xs[j] - xs[i], pp) + tbl[b - j + 1] IN
         BestMove(xs, pp, i, j + 1, b, tbl, IF via > acc THEN via ELSE acc)

RECURSIVE BestFrom(_, _, _, _)
BestFrom(xs, pp, i, b) ==
    IF i = b THEN <<0>>
    ELSE LET tbl == BestFrom(xs, pp, i + 1, b) IN
         Append(tbl, BestMove(xs, pp, i, i + 1, b, tbl, 0))

RECURSIVE MaxEntry(_, _, _)
MaxEntry(tbl, k, acc) ==
    IF k > Len(tbl) THEN acc ELSE MaxEntry(tbl, k + 1, IF tbl[k] > acc THEN tbl[k] ELSE acc)

BruteForce(xs, pp, a, b) ==
    IF a > b THEN 0 ELSE MaxEntry(BestFrom(xs, pp, a, b), 1, 0)

\* The nodes met following next from i, as long as they are inside the vector.
RECURSIVE ChainFrom(_, _, _)
ChainFrom(lk, i, fuel) ==
    IF fuel = 0 \/ i \notin DOMAIN lk THEN << >>
    ELSE <<i>> \o ChainFrom(lk, lk[i].next, fuel - 1)

Chain == ChainFrom(links, 0, N + 1)

\* The sum of the edge weights of the chain nodes in (a,b], following the
\* chain from node i.
RECURSIVE SumBetween(_, _, _, _)
SumBetween(lk, i, a, b) ==
    (IF a < i /\ i <= b THEN lk[i].pvdiff ELSE 0)
    + (IF lk[i].next \in DOMAIN lk /\ lk[i].next > i /\ lk[i].next <= b
       THEN SumBetween(lk, lk[i].next, a, b) ELSE 0)

\* The chain is optimal on [a,b].
Optimal(lk, a, b) == SumBetween(lk, 0, a, b) = BruteForce(x, p, a, b)

\* From node i on, next leads through increasing indices to n-1 and the
\* sentinel, and every node reached is linked back and carries its edge weight.
RECURSIVE ChainOK(_, _)
ChainOK(lk, i) ==
    IF i = N - 1 THEN lk[i].next = N
    ELSE LET j == lk[i].next IN
         /\ j \in DOMAIN lk /\ j > i
         /\ lk[j].prev = i
         /\ lk[lk[j].prev].next = j
         /\ lk[j].pvdiff = pvar_diff(x[j] - x[lk[j].prev], p)
         /\ ChainOK(lk, j)

\* The list has been built and the extrema scan has run.
Linked == N > 2 /\ pc # "start"

\* Some point that the extrema scan kept has been excised since.
Excised == Linked /\ links # DetectLocalExtrema(x, NewLinks(x), p)

-----------------------------------------------------------------------------
\* C1: when pvar returns, its value is the maximum over all strictly increasing
\* index subsequences of the sum of |x[i_j] - x[i_(j-1)]|^p, found by exhaustive
\* enumeration (0 for n <= 1, |x[0]-x[1]|^p for n = 2).
C1_EqualsBruteForce == pc = "done" => pvalue = BruteForce(x, p, 0, N - 1)

\* a run whose result rests on a long joint made by Merge2GoodInt
C1_Witness == pc = "done" /\ maxbalance > 0 /\ pvalue > 0

\* C2: a call of pvar runs to completion: it never stops before pvar has
\* returned, and when it returns the boundary list is <<0, n-1>>.
C2_RunsToCompletion ==
    IF pc = "done" THEN (N > 2 => IterList = <<0, N - 1>>) ELSE ENABLED Next

\* C3: the value pvar returns for x is the value it returns for x reversed.
C3_ReverseInvariant == pc = "done" => pvalue = pvar(Reverse(x), p)

\* a returned value of an asymmetric sequence that went through an excision
C3_Witness == pc = "done" /\ Excised /\ Reverse(x) # x

\* C4: after DetectLocalExtrema the chain holds 0, n-1 and every strict local
\* extremum, holds no strictly monotone interior point and no interior point
\* followed by a flat step, and a monotone sequence is the single edge 0 -> n-1
\* of weight |x[0]-x[n-1]|^p.
C4_Extrema ==
    pc = "shortBegin" =>
        LET c == Range(Chain)
            mono == \/ \A i \in 0..(N - 2) : x[i] <= x[i + 1]
                    \/ \A i \in 0..(N - 2) : x[i] >= x[i + 1]
        IN /\ 0 \in c /\ (N - 1) \in c
           /\ \A i \in 1..(N - 2) :
                /\ (x[i - 1] < x[i] /\ x[i] > x[i + 1]) => i \in c
                /\ (x[i - 1] > x[i] /\ x[i] < x[i + 1]) => i \in c
                /\ (x[i - 1] < x[i] /\ x[i] < x[i + 1]) => i \notin c
                /\ (x[i - 1] > x[i] /\ x[i] > x[i + 1]) => i \notin c
                /\ (x[i + 1] = x[i]) => i \notin c
           /\ mono => /\ Chain = <<0, N - 1>>
                      /\ links[N - 1].prev = 0
                      /\ links[N - 1].pvdiff = pvar_diff(x[0] - x[N - 1], p)

\* a sequence with a flat step, a monotone interior point and an extremum
C4_Witness ==
    /\ pc = "shortBegin"
    /\ \E i, j, k \in 1..(N - 2) :
         /\ x[i + 1] = x[i]
         /\ x[j - 1] < x[j] /\ x[j] < x[j + 1]
         /\ x[k - 1] < x[k] /\ x[k] > x[k + 1] /\ k \in Range(Chain)

\* C5: from the end of the extrema scan on, the structure is one chain from 0
\* to n-1 through increasing indices, ended by the sentinel n, with
\* next[prev[i]] = i and pvdiff[i] = |x[i]-x[prev[i]]|^p on it, and pvdiff[0] = 0.
C5_WellFormedChain ==
    Linked => /\ links[0].pvdiff = 0
              /\ ChainOK(links, 0)

\* a chain from which Merge2GoodInt has just cut the nodes between tait and tbit
C5_Witness ==
    /\ pc = "merge" /\ maxbalance > 0
    /\ links[tait].next = tbit /\ links[tbit].prev = tait
    /\ \E i \in (tait + 1)..(tbit - 1) :
           i \in Range(ChainFrom(DetectLocalExtrema(x, NewLinks(x), p), 0, N + 1))

\* C6: every prev and next lies in 0..n and every index used to read or write
\* x or links lies in 0..n-1.
C6_IndexSafety ==
    Linked =>
        /\ \A i \in DOMAIN links : links[i].prev \in 0..N /\ links[i].next \in 0..N
        /\ touched \subseteq 0..(N - 1)
        /\ pc # "fault"

\* a finished run that backtracked at the left end and merged
C6_Witness == pc = "done" /\ N > 2 /\ Excised /\ Len(av_mins) > 0 /\ touched = 0..(N - 1)

C8_SweepIsFullScan ==
    [][(/\ pc = "merge" /\ InnerTest(IterList, v_IL, b_IL)
        /\ IterList[a_IL] # IterList[v_IL] /\ IterList[v_IL] # IterList[b_IL]) =>
       LET av == PotentialAV(x, links, IterList[a_IL], IterList[v_IL])
           vb == PotentialVB(x, links, IterList[v_IL], IterList[b_IL])
           pairs == (Range(av.mins) \X Range(vb.maxs)) \cup (Range(av.maxs) \X Range(vb.mins))
           best == SetMax({0} \cup {Balance(x, p, pr[1], pr[2]) : pr \in pairs})
       IN /\ maxbalance' = best
          /\ best > 0 =>
                /\ \E pr \in pairs : /\ pr[1].it = tait' /\ pr[2].it = tbit'
                                     /\ Balance(x, p, pr[1], pr[2]) = best
                /\ links'[tait'].next = tbit' /\ links'[tbit'].prev = tait'
          /\ (links' # links) <=> (best > 0)]_vars

\* a call whose winning pair is the second candidate on both sides
C8_Witness ==
    /\ pc = "merge" /\ maxbalance > 0
    /\ Len(av_mins) >= 2 /\ Len(vb_maxs) >= 2
    /\ tait = av_mins[2].it /\ tbit = vb_maxs[2].it

\* C9: when CheckShortIntervals returns, every four consecutive chain nodes
\* b < m1 < m2 < e have pvdiff[m1] + pvdiff[m2] + pvdiff[e] >= |x[b]-x[e]|^p.
C9_ShortWindowsOptimal ==
    pc = "mergeBegin" =>
        LET c == Chain IN
        \A k \in 1..(Len(c) - 3) :
            links[c[k + 1]].pvdiff + links[c[k + 2]].pvdiff + links[c[k + 3]].pvdiff
                >= pvar_diff(x[c[k]] - x[c[k + 3]], p)

\* the scan returned after an excision at the left end, leaving windows
C9_Witness ==
    /\ pc = "mergeBegin" /\ Excised /\ Len(Chain) >= 4
    /\ links[0].next > 1

\* C10 as claimed: a window whose direct jump is >= csum is erased.
C10_ErasedWhenNotLess ==
    [][(pc = "short" /\ pvar_diff(x[int_begin] - x[int_end], p) >= csum) =>
            (links'[int_begin].next = int_end /\ links'[int_end].prev = int_begin)]_vars

\* C10 as the code has it: a window is erased, and begin and end linked with
\* the direct jump as weight, exactly when the direct jump is > csum; when the
\* direct jump equals csum the mid points are kept.
C10_ErasedWhenGreater ==
    [][pc = "short" =>
            LET fjoinval == pvar_diff(x[int_begin] - x[int_end], p) IN
            IF fjoinval > csum
            THEN /\ links'[int_begin].next = int_end
                 /\ links'[int_end].prev = int_begin
                 /\ links'[int_end].pvdiff = fjoinval
            ELSE links' = links]_vars

\* a window with direct jump equal to csum is under examination
C10_Witness ==
    /\ pc = "short" /\ Excised
    /\ pvar_diff(x[int_begin] - x[int_end], p) = csum

====
